---- MODULE Spec2Model ----
(***************************************************************************)
(* Model of src/app.js: the Express handlers POST /analyze and POST        *)
(* /download.  JavaScript runs each handler atomically between two awaits, *)
(* so there is one action per await continuation / completion callback.    *)
(* Lengths are in hundredths of a PDF point (841.89pt = 84189).            *)
(***************************************************************************)
EXTENDS Integers, Sequences, FiniteSets

\* ---------------------------------------------------------------- bounds
MaxLines == 43          \* longest analysis text, in newline-separated lines
NumRequests == 2        \* concurrent /download requests (SpecConc)
NumUploads == 1         \* /analyze requests
MaxClock == 2           \* values Date.now() can take: 0..MaxClock

\* ------------------------------------------------- constants of app.js
PageWidth == 59528      \* addPage([595.28, 841.89])
PageHeight == 84189
PageBottom == 0         \* lower edge of the page box created by addPage
TitleX == 20000
TitleY == 80000
DateX == 5000
DateY == 77000
TextX == 5000
TextTop == 75000        \* let textY = 750
LineStep == 1800        \* textY -= 18
MaxWidth == 50000       \* maxWidth: 500
ImageX == 10000
ImageGap == 2000        \* y: textY - height - 20
ScaleFactor == 50       \* scale(0.5): pixels -> hundredths of a point

Requests == 1..NumRequests
Uploads == 1..NumUploads
Paths == 0..MaxClock
NoOwner == 0

\* ------------------------------------------------------------- inputs
\* A text is a sequence of tokens: NL is "\n", a positive number is a word
\* of that advance width (its separating space included).
NL == 0
Word == 4000
HalfLineWord == 30000
WideWord == 60000

TextOfLines(n) == [i \in 1..(2 * n - 1) |-> IF i % 2 = 1 THEN Word ELSE NL]

Texts ==
    {<<>>} \cup {TextOfLines(n) : n \in 1..MaxLines}
    \cup {<<HalfLineWord, HalfLineWord>>,
          <<HalfLineWord, HalfLineWord, NL, Word>>,
          <<WideWord>>}

SmallTexts == {<<>>, <<Word, NL, Word>>}

\* The image field of the request body: absent, or a data-URI string, of
\* which the model keeps what the handler looks at.
\*   prefix    : the string matches /^data:(image\/[^;]+);base64,/
\*   format    : the captured mime type
\*   decodable : embedJpg/embedPng accepts the decoded bytes
\*   h         : natural height in pixels
NoImage == [present |-> FALSE, prefix |-> FALSE, format |-> "none",
            decodable |-> FALSE, h |-> 0]
Img(prefix, format, decodable, h) ==
    [present |-> TRUE, prefix |-> prefix, format |-> format,
     decodable |-> decodable, h |-> h]

Images ==
    {NoImage,
     Img(FALSE, "none", FALSE, 0),
     Img(TRUE, "image/gif", TRUE, 200),
     Img(TRUE, "image/png", TRUE, 200),
     Img(TRUE, "image/png", TRUE, 2000),
     Img(TRUE, "image/jpeg", FALSE, 0)}

SmallImages == {NoImage, Img(TRUE, "image/png", TRUE, 200)}

Bodies == [hasResult : BOOLEAN, result : Texts, image : Images]
SmallBodies == [hasResult : {TRUE}, result : SmallTexts, image : SmallImages]

\* ------------------------------------------------------ pure functions
\* result.split("\n"): the lines between newlines; "" gives one empty line.
RECURSIVE SplitAcc(_, _, _)
SplitAcc(rest, cur, acc) ==
    IF rest = <<>> THEN Append(acc, cur)
    ELSE IF Head(rest) = NL
         THEN SplitAcc(Tail(rest), <<>>, Append(acc, cur))
         ELSE SplitAcc(Tail(rest), Append(cur, Head(rest)), acc)

Split(text) == SplitAcc(text, <<>>, <<>>)

\* Greedy word wrap of one line to MaxWidth: words accumulate until the next
\* would exceed the width; a word wider than MaxWidth stands alone.
RECURSIVE WrapAcc(_, _, _)
WrapAcc(words, cur, n) ==
    IF words = <<>> THEN n
    ELSE IF cur > 0 /\ cur + Head(words) > MaxWidth
         THEN WrapAcc(Tail(words), Head(words), n + 1)
         ELSE WrapAcc(Tail(words), cur + Head(words), n)

WrapCount(line) == WrapAcc(line, 0, 1)

RECURSIVE SumWrap(_)
SumWrap(lines) ==
    IF lines = <<>> THEN 0 ELSE WrapCount(Head(lines)) + SumWrap(Tail(lines))

\* Wrapped lines of a text; the empty text has none.
WrappedTotal(text) == IF text = <<>> THEN 0 ELSE SumWrap(Split(text))

\* Lines a page holds from TextTop down to the lower edge, LineStep apart.
FitLines == (TextTop - PageBottom) \div LineStep + 1

TextCmd(i, y) ==
    [kind |-> "text", page |-> 1, x |-> TextX, y |-> y, idx |-> i, h |-> 0]

\* textLines.forEach: one drawText per line on the one page, textY -= 18.
TextCmds(lines) ==
    [i \in 1..Len(lines) |-> TextCmd(i, TextTop - (i - 1) * LineStep)]

\* textY after the loop
TextYAfter(lines) == TextTop - Len(lines) * LineStep

HeaderCmds ==
    << [kind |-> "title", page |-> 1, x |-> TitleX, y |-> TitleY,
        idx |-> 0, h |-> 0],
       [kind |-> "date", page |-> 1, x |-> DateX, y |-> DateY,
        idx |-> 0, h |-> 0] >>

\* embeddedImage.scale(0.5).height
ScaledHeight(img) == img.h * ScaleFactor

ImageCmd(img, textY) ==
    [kind |-> "image", page |-> 1, x |-> ImageX,
     y |-> textY - ScaledHeight(img) - ImageGap, idx |-> 0,
     h |-> ScaledHeight(img)]

SupportedFormat(format) == format = "image/jpeg" \/ format = "image/png"

\* ---------------------------------------------------------------- state
VARIABLES
    pc,         \* /download: position of each request
    body,       \* /download: req.body
    docCreated, \* PDFDocument.create() has been called for the request
    pages,      \* number of pages added to the request's document
    cmds,       \* draw calls issued on the request's document, in order
    textY,      \* the handler's textY
    embedTried, \* embedJpg/embedPng has been called
    saved,      \* pdfDoc.save() has resolved
    filePath,   \* the Date.now() suffix of the request's filename, or -1
    written,    \* writeFile has put bytes at filePath
    sent,       \* owner of the bytes res.download delivered, or NoOwner
    status,     \* res.statusCode as the handler set it, 0 while unset
    failedAt,   \* the step that ended the request with an error
    clock,      \* Date.now()
    reports,    \* reports directory: path -> owner of the content, NoOwner
    apc,        \* /analyze: position of each request
    hadFile,    \* /analyze: multer stored an uploaded file
    uploads,    \* upload directory: requests whose file exists
    astatus,    \* /analyze: HTTP status answered
    alive       \* the node process runs (FALSE once it has exited)

dvars == <<pc, body, docCreated, pages, cmds, textY, embedTried, saved,
           filePath, written, sent, status, failedAt>>
avars == <<apc, hadFile, uploads, astatus>>
vars == <<dvars, clock, reports, avars, alive>>

Init ==
    /\ pc = [r \in Requests |-> "idle"]
    /\ body = [r \in Requests |->
                 [hasResult |-> TRUE, result |-> <<>>, image |-> NoImage]]
    /\ docCreated = [r \in Requests |-> FALSE]
    /\ pages = [r \in Requests |-> 0]
    /\ cmds = [r \in Requests |-> <<>>]
    /\ textY = [r \in Requests |-> TextTop]
    /\ embedTried = [r \in Requests |-> FALSE]
    /\ saved = [r \in Requests |-> FALSE]
    /\ filePath = [r \in Requests |-> -1]
    /\ written = [r \in Requests |-> FALSE]
    /\ sent = [r \in Requests |-> NoOwner]
    /\ status = [r \in Requests |-> 0]
    /\ failedAt = [r \in Requests |-> "none"]
    /\ clock = 0
    /\ reports = [p \in Paths |-> NoOwner]
    /\ apc = [u \in Uploads |-> "idle"]
    /\ hadFile = [u \in Uploads |-> FALSE]
    /\ uploads = {}
    /\ astatus = [u \in Uploads |-> 0]
    /\ alive = TRUE

\* The outer catch: answer 500.
Fail(r, step, code) ==
    /\ pc' = [pc EXCEPT ![r] = "done"]
    /\ status' = [status EXCEPT ![r] = code]
    /\ failedAt' = [failedAt EXCEPT ![r] = step]

\* ----------------------------------------------------- POST /download
\* Request arrives; the handler reads req.body and awaits mkdir.
Begin(r, b) ==
    /\ alive
    /\ pc[r] = "idle"
    /\ pc' = [pc EXCEPT ![r] = "mkdir"]
    /\ body' = [body EXCEPT ![r] = b]
    /\ UNCHANGED <<docCreated, pages, cmds, textY, embedTried, saved,
                   filePath, written, sent, status, failedAt>>
    /\ UNCHANGED <<clock, reports, avars, alive>>

\* mkdir settles; on success the handler awaits PDFDocument.create().
MkdirDone(r) ==
    /\ alive
    /\ pc[r] = "mkdir"
    /\ \/ /\ pc' = [pc EXCEPT ![r] = "create"]
          /\ docCreated' = [docCreated EXCEPT ![r] = TRUE]
          /\ UNCHANGED <<status, failedAt>>
       \/ /\ Fail(r, "mkdir", 500)
          /\ UNCHANGED docCreated
    /\ UNCHANGED <<body, pages, cmds, textY, embedTried, saved, filePath,
                   written, sent>>
    /\ UNCHANGED <<clock, reports, avars, alive>>

\* create() resolves; addPage, then the handler awaits embedFont.
CreateDone(r) ==
    /\ alive
    /\ pc[r] = "create"
    /\ pc' = [pc EXCEPT ![r] = "font"]
    /\ pages' = [pages EXCEPT ![r] = 1]
    /\ UNCHANGED <<body, docCreated, cmds, textY, embedTried, saved,
                   filePath, written, sent, status, failedAt>>
    /\ UNCHANGED <<clock, reports, avars, alive>>

\* embedFont resolves: title, date, the text loop, then the image checks up
\* to the await of embedJpg/embedPng, or the await of save.
DrawText(r) ==
    /\ alive
    /\ pc[r] = "font"
    /\ IF ~body[r].hasResult
       THEN \* result.split throws a TypeError after the two header draws
            /\ cmds' = [cmds EXCEPT ![r] = HeaderCmds]
            /\ Fail(r, "text", 500)
            /\ UNCHANGED <<textY, embedTried>>
       ELSE LET lines == Split(body[r].result)
                img == body[r].image
            IN /\ cmds' = [cmds EXCEPT ![r] = HeaderCmds \o TextCmds(lines)]
               /\ textY' = [textY EXCEPT ![r] = TextYAfter(lines)]
               /\ IF ~img.present
                  THEN /\ pc' = [pc EXCEPT ![r] = "save"]
                       /\ UNCHANGED <<status, failedAt, embedTried>>
                  ELSE IF ~img.prefix
                  THEN /\ Fail(r, "invalid", 400)
                       /\ UNCHANGED embedTried
                  ELSE IF ~SupportedFormat(img.format)
                  THEN /\ Fail(r, "unsupported", 400)
                       /\ UNCHANGED embedTried
                  ELSE /\ pc' = [pc EXCEPT ![r] = "embed"]
                       /\ embedTried' = [embedTried EXCEPT ![r] = TRUE]
                       /\ UNCHANGED <<status, failedAt>>
    /\ UNCHANGED <<body, docCreated, pages, saved, filePath, written, sent>>
    /\ UNCHANGED <<clock, reports, avars, alive>>

\* embedJpg/embedPng settles: drawImage and await save, or the inner catch.
EmbedDone(r) ==
    /\ alive
    /\ pc[r] = "embed"
    /\ IF body[r].image.decodable
       THEN /\ cmds' = [cmds EXCEPT
                          ![r] = Append(@, ImageCmd(body[r].image, textY[r]))]
            /\ pc' = [pc EXCEPT ![r] = "save"]
            /\ UNCHANGED <<status, failedAt>>
       ELSE /\ Fail(r, "embed", 500)
            /\ UNCHANGED cmds
    /\ UNCHANGED <<body, docCreated, pages, textY, embedTried, saved,
                   filePath, written, sent>>
    /\ UNCHANGED <<clock, reports, avars, alive>>

\* SaveDone with the write moved ahead of the outcome of save(): a rejected
\* save still reaches writeFile.
SaveDoneEarlyWrite(r) ==
    /\ alive
    /\ pc[r] = "save"
    /\ \/ /\ saved' = [saved EXCEPT ![r] = TRUE]
          /\ filePath' = [filePath EXCEPT ![r] = clock]
          /\ pc' = [pc EXCEPT ![r] = "write"]
          /\ UNCHANGED <<status, failedAt>>
       \/ /\ filePath' = [filePath EXCEPT ![r] = clock]
          /\ pc' = [pc EXCEPT ![r] = "write"]
          /\ UNCHANGED <<saved, status, failedAt>>
    /\ UNCHANGED <<body, docCreated, pages, cmds, textY, embedTried,
                   written, sent>>
    /\ UNCHANGED <<clock, reports, avars, alive>>

\* save() settles: on success the filename takes Date.now() and the handler
\* awaits writeFile; on failure the outer catch answers 500.
SaveDone(r) ==
    /\ alive
    /\ pc[r] = "save"
    /\ \/ /\ saved' = [saved EXCEPT ![r] = TRUE]
          /\ filePath' = [filePath EXCEPT ![r] = clock]
          /\ pc' = [pc EXCEPT ![r] = "write"]
          /\ UNCHANGED <<status, failedAt>>
       \/ /\ Fail(r, "save", 500)
          /\ UNCHANGED <<saved, filePath>>
    /\ UNCHANGED <<body, docCreated, pages, cmds, textY, embedTried,
                   written, sent>>
    /\ UNCHANGED <<clock, reports, avars, alive>>

\* writeFile settles: on success res.download starts; on failure the file
\* may or may not have been created (truncated), and the catch answers 500.
WriteDone(r) ==
    /\ alive
    /\ pc[r] = "write"
    /\ \/ /\ reports' = [reports EXCEPT ![filePath[r]] = r]
          /\ written' = [written EXCEPT ![r] = TRUE]
          /\ pc' = [pc EXCEPT ![r] = "send"]
          /\ UNCHANGED <<status, failedAt>>
       \/ /\ reports' = [reports EXCEPT ![filePath[r]] = r]
          /\ written' = [written EXCEPT ![r] = TRUE]
          /\ Fail(r, "write", 500)
       \/ /\ Fail(r, "write", 500)
          /\ UNCHANGED <<reports, written>>
    /\ UNCHANGED <<body, docCreated, pages, cmds, textY, embedTried, saved,
                   filePath, sent>>
    /\ UNCHANGED <<clock, avars, alive>>

\* The res.download callback.  Without err it starts unlink and does not
\* await it.  With err before the response began it answers 500 and returns.
\* With err after the headers went out (the client was sent 200),
\* res.status(500) sets the field and json throws ERR_HTTP_HEADERS_SENT
\* outside any try: the uncaught exception ends the process.
SendDone(r) ==
    /\ alive
    /\ pc[r] = "send"
    /\ \/ /\ reports[filePath[r]] # NoOwner
          /\ sent' = [sent EXCEPT ![r] = reports[filePath[r]]]
          /\ status' = [status EXCEPT ![r] = 200]
          /\ pc' = [pc EXCEPT ![r] = "unlink"]
          /\ UNCHANGED <<failedAt, alive>>
       \/ /\ Fail(r, "send", 500)
          /\ UNCHANGED <<sent, alive>>
       \/ /\ pc' = [pc EXCEPT ![r] = "done"]
          /\ status' = [status EXCEPT ![r] = 500]
          /\ alive' = FALSE
          /\ UNCHANGED <<sent, failedAt>>
    /\ UNCHANGED <<body, docCreated, pages, cmds, textY, embedTried, saved,
                   filePath, written>>
    /\ UNCHANGED <<clock, reports, avars>>

\* The unlink started by the callback settles.  It is neither awaited nor
\* caught: it removes the file, or it rejects (the file is already gone, or
\* the removal is refused and the file stays); the unhandled rejection is
\* a warning or ends the process, depending on the node version.
UnlinkDone(r) ==
    /\ alive
    /\ pc[r] = "unlink"
    /\ pc' = [pc EXCEPT ![r] = "done"]
    /\ \/ /\ reports[filePath[r]] # NoOwner
          /\ reports' = [reports EXCEPT ![filePath[r]] = NoOwner]
          /\ UNCHANGED alive
       \/ /\ UNCHANGED reports
          /\ alive' \in BOOLEAN
    /\ UNCHANGED <<body, docCreated, pages, cmds, textY, embedTried, saved,
                   filePath, written, sent, status, failedAt>>
    /\ UNCHANGED <<clock, avars>>

\* A millisecond passes.
Tick ==
    /\ clock < MaxClock
    /\ clock' = clock + 1
    /\ UNCHANGED <<dvars, reports, avars, alive>>

\* ------------------------------------------------------ POST /analyze
\* multer has stored the upload (or there was none); the handler awaits
\* readFile, or answers 400.
AnalyzeBegin(u, hasFile) ==
    /\ alive
    /\ apc[u] = "idle"
    /\ hadFile' = [hadFile EXCEPT ![u] = hasFile]
    /\ IF hasFile
       THEN /\ uploads' = uploads \cup {u}
            /\ apc' = [apc EXCEPT ![u] = "read"]
            /\ UNCHANGED astatus
       ELSE /\ apc' = [apc EXCEPT ![u] = "done"]
            /\ astatus' = [astatus EXCEPT ![u] = 400]
            /\ UNCHANGED uploads
    /\ UNCHANGED <<dvars, clock, reports, alive>>

\* readFile settles: await generateContent, or the catch answers 500.
ReadDone(u) ==
    /\ alive
    /\ apc[u] = "read"
    /\ \/ /\ apc' = [apc EXCEPT ![u] = "infer"]
          /\ UNCHANGED astatus
       \/ /\ apc' = [apc EXCEPT ![u] = "done"]
          /\ astatus' = [astatus EXCEPT ![u] = 500]
    /\ UNCHANGED <<hadFile, uploads, dvars, clock, reports, alive>>

\* generateContent settles: await unlink, or the catch answers 500.
InferDone(u) ==
    /\ alive
    /\ apc[u] = "infer"
    /\ \/ /\ apc' = [apc EXCEPT ![u] = "unlink"]
          /\ UNCHANGED astatus
       \/ /\ apc' = [apc EXCEPT ![u] = "done"]
          /\ astatus' = [astatus EXCEPT ![u] = 500]
    /\ UNCHANGED <<hadFile, uploads, dvars, clock, reports, alive>>

\* unlink settles: res.json, or the catch answers 500.
AnalyzeUnlinkDone(u) ==
    /\ alive
    /\ apc[u] = "unlink"
    /\ apc' = [apc EXCEPT ![u] = "done"]
    /\ \/ /\ uploads' = uploads \ {u}
          /\ astatus' = [astatus EXCEPT ![u] = 200]
       \/ /\ astatus' = [astatus EXCEPT ![u] = 500]
          /\ UNCHANGED uploads
    /\ UNCHANGED <<hadFile, dvars, clock, reports, alive>>

\* ------------------------------------------------------ specifications
Download(r) ==
    \/ MkdirDone(r)
    \/ CreateDone(r)
    \/ DrawText(r)
    \/ EmbedDone(r)
    \/ SaveDone(r)
    \/ WriteDone(r)
    \/ SendDone(r)
    \/ UnlinkDone(r)

Analyze(u) ==
    \/ \E hasFile \in BOOLEAN : AnalyzeBegin(u, hasFile)
    \/ ReadDone(u)
    \/ InferDone(u)
    \/ AnalyzeUnlinkDone(u)

\* One /download request over the whole input range, with /analyze requests.
Next ==
    \/ \E b \in Bodies : Begin(1, b)
    \/ Download(1)
    \/ Tick
    \/ \E u \in Uploads : Analyze(u)

Spec == Init /\ [][Next]_vars

\* Concurrent /download requests over a small input range.
NextConc ==
    \/ \E r \in Requests : \E b \in SmallBodies : Begin(r, b)
    \/ \E r \in Requests : Download(r)
    \/ Tick

SpecConc == Init /\ [][NextConc]_vars

\* ---------------------------------------------------------------- claims
TextDrawn(r) == body[r].hasResult /\ Len(cmds[r]) > 2
TextCount(r) ==
    Cardinality({i \in DOMAIN cmds[r] : cmds[r][i].kind = "text"})
ImageDrawn(r) == \E i \in DOMAIN cmds[r] : cmds[r][i].kind = "image"

\* C1: every text line and the image is drawn at a y inside the page, between
\* the lower edge and the top text margin.
C1_PageBounds ==
    \A r \in Requests : \A i \in DOMAIN cmds[r] :
        cmds[r][i].kind \in {"text", "image"}
            => /\ cmds[r][i].y >= PageBottom
               /\ cmds[r][i].y <= TextTop

\* C2: the number of text-line draw commands of a report equals the number
\* of wrapped lines of its text.
C2_PaginationComplete ==
    \A r \in Requests :
        (body[r].hasResult /\ Len(cmds[r]) >= 2)
            => TextCount(r) = WrappedTotal(body[r].result)

\* C3: a text of one line more than a page holds gives 2 pages, the last line
\* at the top margin of page 2.
C3_OverflowNewPage ==
    \A r \in Requests :
        (TextDrawn(r) /\ Len(Split(body[r].result)) = FitLines + 1)
            => /\ pages[r] = 2
               /\ \E i \in DOMAIN cmds[r] :
                      /\ cmds[r][i].kind = "text"
                      /\ cmds[r][i].idx = FitLines + 1
                      /\ cmds[r][i].page = 2
                      /\ cmds[r][i].y = TextTop

\* C4: a request whose image has an unsupported mime type sends no draw
\* command to the writer and attempts no decode.
C4_UnsupportedNoDraw ==
    \A r \in Requests :
        (/\ pc[r] # "idle"
         /\ body[r].image.present
         /\ body[r].image.prefix
         /\ ~SupportedFormat(body[r].image.format))
            => cmds[r] = <<>> /\ ~embedTried[r]

\* C5: a request with empty text and no image never invokes the writer.
C5_EmptyInputNoWriter ==
    \A r \in Requests :
        (/\ pc[r] # "idle"
         /\ body[r].hasResult
         /\ body[r].result = <<>>
         /\ ~body[r].image.present)
            => /\ ~docCreated[r]
               /\ pages[r] = 0
               /\ cmds[r] = <<>>
               /\ ~saved[r]
               /\ ~written[r]

\* C6: a finished request has left no report file of its own in storage.
C6_ReportDeleted ==
    \A r \in Requests :
        (pc[r] = "done" /\ written[r]) => reports[filePath[r]] = NoOwner

\* C7: no two requests use the same report path.
C7_CollisionFree ==
    \A r1, r2 \in Requests :
        (r1 # r2 /\ filePath[r1] # -1 /\ filePath[r2] # -1)
            => filePath[r1] # filePath[r2]

\* C8: the image is on the current page exactly when its scaled height fits
\* in the space left under the text, and on the next page otherwise.
C8_ImageFit ==
    \A r \in Requests : \A i \in DOMAIN cmds[r] :
        cmds[r][i].kind = "image"
            => IF ScaledHeight(body[r].image) <= textY[r] - PageBottom
               THEN cmds[r][i].page = 1
               ELSE cmds[r][i].page = 2

\* C9: a file is written only after save has succeeded; a request that
\* failed before its document was serialized has written no file and has
\* sent no document bytes.
C9_NoPartialOutput ==
    \A r \in Requests :
        /\ written[r] => saved[r]
        /\ (pc[r] = "done" /\ status[r] \in {400, 500} /\ ~saved[r])
               => /\ ~written[r]
                  /\ filePath[r] = -1
                  /\ sent[r] = NoOwner
                  /\ \A p \in Paths : reports[p] # r

\* A request whose save was rejected after text and image had been drawn.
C9_Witness ==
    \E r \in Requests :
        /\ pc[r] = "done"
        /\ failedAt[r] = "save"
        /\ status[r] = 500
        /\ ImageDrawn(r)
        /\ ~written[r]

\* C10: a finished /analyze request has left no uploaded file in storage.
C10_UploadDeleted ==
    \A u \in Uploads : (apc[u] = "done" /\ hadFile[u]) => u \notin uploads

====
